---- MODULE Spec2Model ----
(***************************************************************************)
(* The game-state engine of the chameleon pet (src/src/hooks/useGameState.ts *)
(* and src/src/types/pet.ts) as a state machine.                           *)
(*                                                                         *)
(* gameState is the React state of the hook: every setGameState(prev => ..)*)
(* of the source is an operator from the previous state record to the next *)
(* one, applied in the order the handler queues them.  rendered is the     *)
(* state snapshot the callbacks closed over at the last render: the guards *)
(* that the source evaluates on `gameState` (not on `prev`) read it.       *)
(*                                                                         *)
(* Stat values are held in units of 1/Scale stat point, because the decay  *)
(* tick subtracts 0.5 and 1.5.  Record ids and Date values (generateId,    *)
(* new Date()) take no part in any decision of the code; an earnedAt is    *)
(* kept as the flag "is set".                                              *)
(***************************************************************************)
EXTENDS Integers, Sequences, FiniteSets, TLC

VARIABLES gameState, rendered, reactionTimeout, lastOp, budget

vars == <<gameState, rendered, reactionTimeout, lastOp, budget>>

-----------------------------------------------------------------------------
(* Bounds of the exploration *)

\* operations (calls and timer callbacks) explored after a first launch
MaxSteps == 4

\* operations explored after a launch that loads a saved game
MaxResumed == 2

\* updateStats calls explored from a hatched pet when the mood rules are checked
MaxMoodCalls == 1

\* calls and timer callbacks of a run whose callers hold old snapshots
MaxStaleSteps == 2

\* play-time ticks and reaction timeouts that fire while a pet is left alone
\* (decay ticks and evolution checks are not counted: they never stop)
MaxNeglectMinutes == 2

\* calls of a run that names pets
MaxNameCalls == 3

-----------------------------------------------------------------------------
(* src/src/types/pet.ts *)

\* stat units per stat point: the decay steps are 0.5 and 1.5 points
Scale == 2

P(n) == n * Scale

StatKeys == {"hunger", "happiness", "health", "energy", "cleanliness"}

ChameleonType == {"veiled", "panther", "jackson"}

CHAMELEON_TYPES ==
  [veiled  |-> [name |-> "Veiled Chameleon",    baseColor |-> "#2ECC71"],
   panther |-> [name |-> "Panther Chameleon",   baseColor |-> "#3498DB"],
   jackson |-> [name |-> "Jackson's Chameleon", baseColor |-> "#27AE60"]]

ACTION_COSTS ==
  [feed        |-> [cost |-> 5,  category |-> "food",     description |-> "Pet food"],
   treat       |-> [cost |-> 8,  category |-> "food",     description |-> "Special treat"],
   play        |-> [cost |-> 3,  category |-> "toy",      description |-> "Play session"],
   newToy      |-> [cost |-> 15, category |-> "toy",      description |-> "New toy"],
   checkup     |-> [cost |-> 25, category |-> "health",   description |-> "Routine checkup"],
   vaccination |-> [cost |-> 35, category |-> "health",   description |-> "Vaccination"],
   treatment   |-> [cost |-> 20, category |-> "health",   description |-> "Health treatment"],
   emergency   |-> [cost |-> 50, category |-> "health",   description |-> "Emergency care"],
   medicine    |-> [cost |-> 12, category |-> "health",   description |-> "Medicine"],
   bath        |-> [cost |-> 8,  category |-> "grooming", description |-> "Bath supplies"],
   bedding     |-> [cost |-> 10, category |-> "supplies", description |-> "Fresh bedding"]]

VET_SERVICES ==
  [checkup     |-> [name |-> "Routine Checkup", cost |-> 25, healthBoost |-> 30],
   vaccination |-> [name |-> "Vaccination",     cost |-> 35, healthBoost |-> 15],
   treatment   |-> [name |-> "Treatment",       cost |-> 20, healthBoost |-> 40],
   emergency   |-> [name |-> "Emergency Care",  cost |-> 50, healthBoost |-> 60]]

AVAILABLE_CHORES ==
  << [id |-> "clean_room", reward |-> 10],
     [id |-> "homework",   reward |-> 15],
     [id |-> "dishes",     reward |-> 8],
     [id |-> "laundry",    reward |-> 12],
     [id |-> "yard_work",  reward |-> 20],
     [id |-> "pet_care",   reward |-> 10] >>

AVAILABLE_BADGES ==
  << [id |-> "first_pet",    name |-> "New Pet Parent"],
     [id |-> "well_fed",     name |-> "Master Chef"],
     [id |-> "happy_camper", name |-> "Joy Bringer"],
     [id |-> "clean_freak",  name |-> "Squeaky Clean"],
     [id |-> "money_saver",  name |-> "Smart Saver"],
     [id |-> "hard_worker",  name |-> "Super Helper"],
     [id |-> "healthy_pet",  name |-> "Health Hero"],
     [id |-> "trick_master", name |-> "Trick Trainer"],
     [id |-> "vet_regular",  name |-> "Vet Regular"],
     [id |-> "evolution_1",  name |-> "Growing Up"],
     [id |-> "evolution_2",  name |-> "All Grown Up"] >>

Min(a, b) == IF a < b THEN a ELSE b

Max(a, b) == IF a > b THEN a ELSE b

\* calculateMood with the hunger rule tried before the health rule
calculateMood_hungerFirst(stats) ==
  IF stats.hunger < P(20) THEN "hungry"
  ELSE IF stats.health < P(25) THEN "sick"
  ELSE IF stats.cleanliness < P(20) THEN "dirty"
  ELSE IF stats.energy < P(15) THEN "tired"
  ELSE IF stats.happiness < P(25) THEN "sad"
  ELSE IF stats.energy > P(80) /\ stats.happiness > P(75) THEN "energetic"
  ELSE IF stats.happiness > P(70) /\ stats.hunger > P(60) /\ stats.health > P(70)
       THEN "happy"
  ELSE "neutral"

\* stats.health < 25 and so on, first match wins
calculateMood(stats) ==
  IF stats.health < P(25) THEN "sick"
  ELSE IF stats.hunger < P(20) THEN "hungry"
  ELSE IF stats.cleanliness < P(20) THEN "dirty"
  ELSE IF stats.energy < P(15) THEN "tired"
  ELSE IF stats.happiness < P(25) THEN "sad"
  ELSE IF stats.energy > P(80) /\ stats.happiness > P(75) THEN "energetic"
  ELSE IF stats.happiness > P(70) /\ stats.hunger > P(60) /\ stats.health > P(70)
       THEN "happy"
  ELSE "neutral"

getMoodColor(mood, baseColor) ==
  CASE mood = "happy"     -> "#FFD93D"
    [] mood = "sad"       -> "#6B7FD7"
    [] mood = "sick"      -> "#9B59B6"
    [] mood = "energetic" -> "#FF6B35"
    [] mood = "tired"     -> "#74B9FF"
    [] mood = "neutral"   -> baseColor
    [] mood = "hungry"    -> "#E67E22"
    [] mood = "dirty"     -> "#8B7355"

\* getEvolutionStage with the adult stage one day late (> 7 for >= 7)
getEvolutionStage_lateAdult(age) ==
  IF age > 7 THEN 3 ELSE IF age >= 3 THEN 2 ELSE 1

getEvolutionStage(age) ==
  IF age >= 7 THEN 3 ELSE IF age >= 3 THEN 2 ELSE 1

\* Math.floor(totalPlayTime / 5); createdAt is not read
calculateAge(totalPlayTime) == totalPlayTime \div 5

-----------------------------------------------------------------------------
(* Inputs the callers pass *)

Rex == <<"R", "e", "x">>

EmptyName == << >>

BlankName == <<" ", " ">>

PaddedName == <<" ", "A", "l", " ">>

LongName == [i \in 1..21 |-> "a"]

PetNames == {Rex, EmptyName, BlankName, PaddedName, LongName}

\* names the hook can be handed besides those above: one character, a
\* character that is no letter, digit or space, exactly 20 characters, 20
\* characters between two spaces, digits and an inner space
OneCharName == <<"A">>

SymbolName == <<"R", "!", "x">>

TwentyName == [i \in 1..20 |-> "b"]

PaddedTwentyName == <<" ">> \o TwentyName \o <<" ">>

DigitName == <<"R", "2", " ", "D", "2">>

NameInputs ==
  PetNames \cup {OneCharName, SymbolName, TwentyName, PaddedTwentyName, DigitName}

\* the five buttons of ActionButtons and an id that performAction does not know
ActionIds == {"feed", "treat", "play", "rest", "clean", "dance"}

\* keys handed to spendMoney directly: a known key and an unknown one
SpendKeys == {"newToy", "bogus"}

VetTypes == {"checkup", "vaccination", "treatment", "emergency"}

\* four of the AVAILABLE_TRICKS of TricksPanel
TrickNames == {"Wave", "Spin", "Dance", "Hide"}

\* the chores of AVAILABLE_CHORES that ChoresPanel pays out here
ChoreInputs == {c \in {AVAILABLE_CHORES[i] : i \in DOMAIN AVAILABLE_CHORES} :
                  c.id \in {"dishes", "yard_work"}}

\* Partial<PetStats> arguments of direct updateStats calls
StatChangeInputs ==
  { [x \in {} |-> 0],
    [x \in {"hunger", "energy"} |-> P(-60)],
    [x \in {"health", "happiness"} |-> P(150)] }

-----------------------------------------------------------------------------
(* src/src/hooks/useGameState.ts: construction *)

IsSpace(c) == c = " "

RECURSIVE TrimStart(_)
TrimStart(s) ==
  IF s # << >> /\ IsSpace(Head(s)) THEN TrimStart(Tail(s)) ELSE s

RECURSIVE TrimEnd(_)
TrimEnd(s) ==
  IF s # << >> /\ IsSpace(s[Len(s)]) THEN TrimEnd(SubSeq(s, 1, Len(s) - 1)) ELSE s

\* String.prototype.trim
Trim(s) == TrimEnd(TrimStart(s))

\* Array.prototype.slice(0, n)
Slice0(s, n) == SubSeq(s, 1, Min(Len(s), n))

createInitialPet(name, type) ==
  [ name           |-> name,
    type           |-> type,
    stats          |-> [hunger |-> P(75), happiness |-> P(80), health |-> P(100),
                        energy |-> P(85), cleanliness |-> P(95)],
    mood           |-> "happy",
    age            |-> 0,
    evolutionStage |-> 1,
    tricks         |-> << >>,
    color          |-> getMoodColor("happy", CHAMELEON_TYPES[type].baseColor),
    currentReaction |-> "none",
    vetHistory     |-> << >>,
    lastVetVisit   |-> FALSE ]

\* the starting finances with the starting balance not counted as earned
createInitialFinances_nothingEarned ==
  [ balance |-> 50, totalSpent |-> 0, totalEarned |-> 0, expenses |-> << >>,
    savingsGoal |-> 100, savingsProgress |-> 0 ]

createInitialFinances ==
  [ balance |-> 50, totalSpent |-> 0, totalEarned |-> 50, expenses |-> << >>,
    savingsGoal |-> 100, savingsProgress |-> 0 ]

createInitialGameState ==
  [ pet             |-> createInitialPet(EmptyName, "veiled"),
    finances        |-> createInitialFinances,
    badges          |-> << >>,
    completedChores |-> << >>,
    isFirstTime     |-> TRUE,
    totalPlayTime   |-> 0 ]

-----------------------------------------------------------------------------
(* The state updaters: each is one setGameState(prev => ...) of the source *)

\* prev.badges.find(b => b.id === id)
HasBadge(badges, id) == \E i \in DOMAIN badges : badges[i].id = id

\* const badge = AVAILABLE_BADGES.find(..); if (badge) newBadges.push({...badge, earnedAt})
PushBadge(newBadges, id) ==
  LET found == {i \in DOMAIN AVAILABLE_BADGES : AVAILABLE_BADGES[i].id = id}
  IN  IF found = {} THEN newBadges
      ELSE LET badge == AVAILABLE_BADGES[CHOOSE i \in found : \A j \in found : i <= j]
           IN  Append(newBadges, [id |-> badge.id, name |-> badge.name, earnedAt |-> TRUE])

\* the pet with new stats and the mood and colour derived from them
WithStats(pet, newStats) ==
  LET newMood == calculateMood(newStats)
  IN  [pet EXCEPT !.stats = newStats,
                  !.mood  = newMood,
                  !.color = getMoodColor(newMood, CHAMELEON_TYPES[pet.type].baseColor)]

\* setReaction, first updater
SetReactionUpdater(prev, reaction) ==
  [prev EXCEPT !.pet.currentReaction = reaction]

\* setReaction, the updater run by the timeout
ClearReactionUpdater(prev) ==
  [prev EXCEPT !.pet.currentReaction = "none"]

\* the decay callback with health falling by 0.5 whatever hunger and
\* cleanliness are
DecayUpdater_slowHealth(prev) ==
  LET s == prev.pet.stats
      newStats ==
        [ hunger      |-> Max(0, s.hunger - P(2)),
          happiness   |-> Max(0, s.happiness - P(1)),
          health      |-> Max(0, s.health - P(1) \div 2),
          energy      |-> Max(0, s.energy - P(1)),
          cleanliness |-> Max(0, s.cleanliness - P(3) \div 2) ]
  IN  [prev EXCEPT !.pet = WithStats(prev.pet, newStats)]

\* the decay callback sparing energy
DecayUpdater_noEnergyDrop(prev) ==
  LET s == prev.pet.stats
      newStats ==
        [ hunger      |-> Max(0, s.hunger - P(2)),
          happiness   |-> Max(0, s.happiness - P(1)),
          health      |-> IF s.hunger < P(20) \/ s.cleanliness < P(20)
                          THEN Max(0, s.health - P(3))
                          ELSE Max(0, s.health - P(1) \div 2),
          energy      |-> s.energy,
          cleanliness |-> Max(0, s.cleanliness - P(3) \div 2) ]
  IN  [prev EXCEPT !.pet = WithStats(prev.pet, newStats)]

\* the interval callback of the stat decay effect
DecayUpdater(prev) ==
  LET s == prev.pet.stats
      newStats ==
        [ hunger      |-> Max(0, s.hunger - P(2)),
          happiness   |-> Max(0, s.happiness - P(1)),
          health      |-> IF s.hunger < P(20) \/ s.cleanliness < P(20)
                          THEN Max(0, s.health - P(3))
                          ELSE Max(0, s.health - P(1) \div 2),
          energy      |-> Max(0, s.energy - P(1)),
          cleanliness |-> Max(0, s.cleanliness - P(3) \div 2) ]
  IN  [prev EXCEPT !.pet = WithStats(prev.pet, newStats)]

\* the interval callback of the play time effect
PlayTimeUpdater(prev) ==
  [prev EXCEPT !.totalPlayTime = prev.totalPlayTime + 1]

\* the interval callback of the evolution effect
EvolutionUpdater(prev) ==
  LET newAge   == calculateAge(prev.totalPlayTime)
      newStage == getEvolutionStage(newAge)
      badgeId  == IF newStage = 2 THEN "evolution_1" ELSE "evolution_2"
      newBadges == IF ~HasBadge(prev.badges, badgeId)
                   THEN PushBadge(prev.badges, badgeId) ELSE prev.badges
  IN  IF newStage # prev.pet.evolutionStage
      THEN [prev EXCEPT !.pet.age = newAge,
                        !.pet.evolutionStage = newStage,
                        !.pet.currentReaction = "sparkle",
                        !.badges = newBadges]
      ELSE [prev EXCEPT !.pet.age = newAge]

\* initializePet's updater without the first_pet badge
InitializePetUpdater_noBadge(prev, name, type) ==
  [prev EXCEPT !.pet = createInitialPet(Trim(name), type),
               !.isFirstTime = FALSE]

\* initializePet, its updater
InitializePetUpdater(prev, name, type) ==
  [prev EXCEPT !.pet = createInitialPet(Trim(name), type),
               !.isFirstTime = FALSE,
               !.badges = PushBadge(<< >>, "first_pet")]

\* updateStats without the upper clamp Math.min(100, ..)
UpdateStatsUpdater_noCeiling(prev, statChanges) ==
  LET newStats ==
        [k \in StatKeys |->
           IF k \in DOMAIN statChanges
           THEN Max(0, prev.pet.stats[k] + statChanges[k])
           ELSE prev.pet.stats[k]]
  IN  [prev EXCEPT !.pet = WithStats(prev.pet, newStats)]

\* updateStats, its updater
UpdateStatsUpdater(prev, statChanges) ==
  LET newStats ==
        [k \in StatKeys |->
           IF k \in DOMAIN statChanges
           THEN Max(0, Min(P(100), prev.pet.stats[k] + statChanges[k]))
           ELSE prev.pet.stats[k]]
  IN  [prev EXCEPT !.pet = WithStats(prev.pet, newStats)]

\* spendMoney that forgets to add the cost to totalSpent
SpendMoneyUpdater_noTotalSpent(prev, actionKey) ==
  LET action  == ACTION_COSTS[actionKey]
      expense == [category |-> action.category, description |-> action.description,
                  amount |-> action.cost]
  IN  [prev EXCEPT !.finances.balance    = prev.finances.balance - action.cost,
                   !.finances.expenses   = Slice0(<<expense>> \o prev.finances.expenses, 50)]

\* spendMoney that never trims the log: no .slice(0, 50)
SpendMoneyUpdater_noCap(prev, actionKey) ==
  LET action  == ACTION_COSTS[actionKey]
      expense == [category |-> action.category, description |-> action.description,
                  amount |-> action.cost]
  IN  [prev EXCEPT !.finances.balance    = prev.finances.balance - action.cost,
                   !.finances.totalSpent = prev.finances.totalSpent + action.cost,
                   !.finances.expenses   = <<expense>> \o prev.finances.expenses]

\* spendMoney, its updater
SpendMoneyUpdater(prev, actionKey) ==
  LET action  == ACTION_COSTS[actionKey]
      expense == [category |-> action.category, description |-> action.description,
                  amount |-> action.cost]
  IN  [prev EXCEPT !.finances.balance    = prev.finances.balance - action.cost,
                   !.finances.totalSpent = prev.finances.totalSpent + action.cost,
                   !.finances.expenses   = Slice0(<<expense>> \o prev.finances.expenses, 50)]

\* earnMoney's updater with hard_worker granted after ten chores instead of at ten
EarnMoneyUpdater_afterTenth(prev, amount, choreId) ==
  LET newCompletedChores == Append(prev.completedChores, choreId)
      badges1 == IF Len(newCompletedChores) > 10 /\ ~HasBadge(prev.badges, "hard_worker")
                 THEN PushBadge(prev.badges, "hard_worker") ELSE prev.badges
      newBalance == prev.finances.balance + amount
      newBadges == IF newBalance >= 100 /\ ~HasBadge(prev.badges, "money_saver")
                   THEN PushBadge(badges1, "money_saver") ELSE badges1
  IN  [prev EXCEPT !.finances.balance     = newBalance,
                   !.finances.totalEarned = prev.finances.totalEarned + amount,
                   !.badges               = newBadges,
                   !.completedChores      = newCompletedChores]

\* earnMoney, its updater
EarnMoneyUpdater(prev, amount, choreId) ==
  LET newCompletedChores == Append(prev.completedChores, choreId)
      badges1 == IF Len(newCompletedChores) >= 10 /\ ~HasBadge(prev.badges, "hard_worker")
                 THEN PushBadge(prev.badges, "hard_worker") ELSE prev.badges
      newBalance == prev.finances.balance + amount
      newBadges == IF newBalance >= 100 /\ ~HasBadge(prev.badges, "money_saver")
                   THEN PushBadge(badges1, "money_saver") ELSE badges1
  IN  [prev EXCEPT !.finances.balance     = newBalance,
                   !.finances.totalEarned = prev.finances.totalEarned + amount,
                   !.badges               = newBadges,
                   !.completedChores      = newCompletedChores]

\* the badge check without the "already held" test
BadgeCheckUpdater_noHeldTest(prev) ==
  IF prev.pet.stats.happiness >= P(100)
  THEN [prev EXCEPT !.badges = PushBadge(prev.badges, "happy_camper")]
  ELSE prev

\* performAction, the badge check queued after updateStats and setReaction
BadgeCheckUpdater(prev) ==
  IF prev.pet.stats.happiness >= P(100) /\ ~HasBadge(prev.badges, "happy_camper")
  THEN [prev EXCEPT !.badges = PushBadge(prev.badges, "happy_camper")]
  ELSE prev

\* performVetService's updater with a vet history that is never cut
VetServiceUpdater_noHistoryCap(prev, serviceType) ==
  LET service   == VET_SERVICES[serviceType]
      expense   == [category |-> "health", description |-> service.name,
                    amount |-> service.cost]
      vetRecord == [type |-> serviceType, description |-> service.name,
                    cost |-> service.cost, healthBoost |-> service.healthBoost]
      newVetHistory == <<vetRecord>> \o prev.pet.vetHistory
      newBadges == IF Len(newVetHistory) >= 5 /\ ~HasBadge(prev.badges, "vet_regular")
                   THEN PushBadge(prev.badges, "vet_regular") ELSE prev.badges
      newHealth == Min(P(100), prev.pet.stats.health + P(service.healthBoost))
      newStats  == [prev.pet.stats EXCEPT !.health = newHealth]
  IN  [prev EXCEPT
         !.pet = [WithStats(prev.pet, newStats) EXCEPT
                    !.vetHistory = newVetHistory,
                    !.lastVetVisit = TRUE,
                    !.currentReaction = "healing"],
         !.finances.balance    = prev.finances.balance - service.cost,
         !.finances.totalSpent = prev.finances.totalSpent + service.cost,
         !.finances.expenses   = Slice0(<<expense>> \o prev.finances.expenses, 50),
         !.badges = newBadges]

\* performVetService, its updater
VetServiceUpdater(prev, serviceType) ==
  LET service   == VET_SERVICES[serviceType]
      expense   == [category |-> "health", description |-> service.name,
                    amount |-> service.cost]
      vetRecord == [type |-> serviceType, description |-> service.name,
                    cost |-> service.cost, healthBoost |-> service.healthBoost]
      newVetHistory == Slice0(<<vetRecord>> \o prev.pet.vetHistory, 20)
      newBadges == IF Len(newVetHistory) >= 5 /\ ~HasBadge(prev.badges, "vet_regular")
                   THEN PushBadge(prev.badges, "vet_regular") ELSE prev.badges
      newHealth == Min(P(100), prev.pet.stats.health + P(service.healthBoost))
      newStats  == [prev.pet.stats EXCEPT !.health = newHealth]
  IN  [prev EXCEPT
         !.pet = [WithStats(prev.pet, newStats) EXCEPT
                    !.vetHistory = newVetHistory,
                    !.lastVetVisit = TRUE,
                    !.currentReaction = "healing"],
         !.finances.balance    = prev.finances.balance - service.cost,
         !.finances.totalSpent = prev.finances.totalSpent + service.cost,
         !.finances.expenses   = Slice0(<<expense>> \o prev.finances.expenses, 50),
         !.badges = newBadges]

\* teachTrick's updater with trick_master granted after the third trick
\* instead of at it
TeachTrickUpdater_afterThird(prev, trickName) ==
  LET newTricks == Append(prev.pet.tricks, trickName)
      newBadges == IF Len(newTricks) > 3 /\ ~HasBadge(prev.badges, "trick_master")
                   THEN PushBadge(prev.badges, "trick_master") ELSE prev.badges
  IN  [prev EXCEPT
         !.pet.tricks = newTricks,
         !.pet.stats.energy    = Max(0, prev.pet.stats.energy - P(20)),
         !.pet.stats.happiness = Min(P(100), prev.pet.stats.happiness + P(15)),
         !.pet.currentReaction = "sparkle",
         !.badges = newBadges]

\* teachTrick, its updater
TeachTrickUpdater(prev, trickName) ==
  LET newTricks == Append(prev.pet.tricks, trickName)
      newBadges == IF Len(newTricks) >= 3 /\ ~HasBadge(prev.badges, "trick_master")
                   THEN PushBadge(prev.badges, "trick_master") ELSE prev.badges
  IN  [prev EXCEPT
         !.pet.tricks = newTricks,
         !.pet.stats.energy    = Max(0, prev.pet.stats.energy - P(20)),
         !.pet.stats.happiness = Min(P(100), prev.pet.stats.happiness + P(15)),
         !.pet.currentReaction = "sparkle",
         !.badges = newBadges]

-----------------------------------------------------------------------------
(* The operations of the hook and the timer callbacks.  Each is given the
   snapshot g its closure holds (the `gameState` of the source) and the state
   prev its updaters are applied to, and yields what it returns (TRUE when it
   returns nothing), the state its updaters leave, and whether it started the
   reaction timeout. *)

Result(ret, next, timer) == [ret |-> ret, next |-> next, timer |-> timer]

decayTick(g, prev) == Result(TRUE, DecayUpdater(prev), FALSE)

playTimeTick(g, prev) == Result(TRUE, PlayTimeUpdater(prev), FALSE)

evolutionCheck(g, prev) == Result(TRUE, EvolutionUpdater(prev), FALSE)

initializePet(g, prev, name, type) ==
  IF Trim(name) = << >> THEN Result(FALSE, prev, FALSE)
  ELSE IF Len(name) > 20 THEN Result(FALSE, prev, FALSE)
  ELSE Result(TRUE, InitializePetUpdater(prev, name, type), FALSE)

updateStats(g, prev, statChanges) ==
  Result(TRUE, UpdateStatsUpdater(prev, statChanges), FALSE)

\* spendMoney that refuses a balance equal to the cost (<= for <)
spendMoney_exactRefused(g, prev, actionKey) ==
  IF actionKey \notin DOMAIN ACTION_COSTS THEN Result(FALSE, prev, FALSE)
  ELSE IF g.finances.balance <= ACTION_COSTS[actionKey].cost THEN Result(FALSE, prev, FALSE)
  ELSE Result(TRUE, SpendMoneyUpdater(prev, actionKey), FALSE)

spendMoney(g, prev, actionKey) ==
  IF actionKey \notin DOMAIN ACTION_COSTS THEN Result(FALSE, prev, FALSE)
  ELSE IF g.finances.balance < ACTION_COSTS[actionKey].cost THEN Result(FALSE, prev, FALSE)
  ELSE Result(TRUE, SpendMoneyUpdater(prev, actionKey), FALSE)

earnMoney(g, prev, amount, choreId) ==
  Result(TRUE, EarnMoneyUpdater(prev, amount, choreId), FALSE)

\* the switch of performAction: stat changes, action key and reaction of an id
ActionTable ==
  [feed  |-> [statChanges |-> [hunger |-> P(25), energy |-> P(5)],
              actionKey |-> "feed", reaction |-> "eating"],
   treat |-> [statChanges |-> [hunger |-> P(15), happiness |-> P(20)],
              actionKey |-> "treat", reaction |-> "love"],
   play  |-> [statChanges |-> [happiness |-> P(25), energy |-> P(-15)],
              actionKey |-> "play", reaction |-> "playing"],
   rest  |-> [statChanges |-> [energy |-> P(35), happiness |-> P(5)],
              actionKey |-> "", reaction |-> "sleeping"],
   clean |-> [statChanges |-> [cleanliness |-> P(40), happiness |-> P(5)],
              actionKey |-> "bath", reaction |-> "sparkle"]]

\* performAction whose 'rest' case has the action key 'play' and no early return
performAction_restPaid(g, prev, action) ==
  IF action \notin DOMAIN ActionTable THEN Result(FALSE, prev, FALSE)
  ELSE
    LET a == ActionTable[action]
        spent == spendMoney(g, prev, IF action = "rest" THEN "play" ELSE a.actionKey)
    IN  IF ~spent.ret THEN Result(FALSE, prev, FALSE)
        ELSE Result(TRUE,
               BadgeCheckUpdater(
                 SetReactionUpdater(
                   UpdateStatsUpdater(spent.next, a.statChanges), a.reaction)),
               TRUE)

performAction(g, prev, action) ==
  IF action \notin DOMAIN ActionTable THEN Result(FALSE, prev, FALSE)
  ELSE
    LET a == ActionTable[action]
    IN  IF action = "rest"
        THEN Result(TRUE,
                    SetReactionUpdater(UpdateStatsUpdater(prev, a.statChanges), a.reaction),
                    TRUE)
        ELSE LET spent == spendMoney(g, prev, a.actionKey)
             IN  IF ~spent.ret THEN Result(FALSE, prev, FALSE)
                 ELSE Result(TRUE,
                        BadgeCheckUpdater(
                          SetReactionUpdater(
                            UpdateStatsUpdater(spent.next, a.statChanges), a.reaction)),
                        TRUE)

\* performVetService without the affordability check
performVetService_noFundsCheck(g, prev, serviceType) ==
  IF serviceType \notin DOMAIN VET_SERVICES THEN Result(FALSE, prev, FALSE)
  ELSE Result(TRUE, SetReactionUpdater(VetServiceUpdater(prev, serviceType), "healing"), TRUE)

performVetService(g, prev, serviceType) ==
  IF serviceType \notin DOMAIN VET_SERVICES THEN Result(FALSE, prev, FALSE)
  ELSE IF g.finances.balance < VET_SERVICES[serviceType].cost THEN Result(FALSE, prev, FALSE)
  ELSE Result(TRUE, SetReactionUpdater(VetServiceUpdater(prev, serviceType), "healing"), TRUE)

\* Array.prototype.includes
Includes(seq, x) == \E i \in DOMAIN seq : seq[i] = x

\* teachTrick without the "already learned" test
teachTrick_noKnownTest(g, prev, trickName) ==
  IF g.pet.stats.energy < P(30) THEN Result(FALSE, prev, FALSE)
  ELSE Result(TRUE, SetReactionUpdater(TeachTrickUpdater(prev, trickName), "sparkle"), TRUE)

teachTrick(g, prev, trickName) ==
  IF g.pet.stats.energy < P(30) THEN Result(FALSE, prev, FALSE)
  ELSE IF Includes(g.pet.tricks, trickName) THEN Result(FALSE, prev, FALSE)
  ELSE Result(TRUE, SetReactionUpdater(TeachTrickUpdater(prev, trickName), "sparkle"), TRUE)

resetGame(g, prev) == Result(TRUE, createInitialGameState, FALSE)

-----------------------------------------------------------------------------
(* Saved games.  The hook starts from what localStorage holds; every state the
   program has been in was saved.  Each saved game here is the state a script
   of the operations above leaves, each call made on a rendered state. *)

Cmd(op, arg) == [op |-> op, arg |-> arg]

\* one call or timer callback of a script; the interval timers exist only
\* once a pet does
Apply(s, cmd) ==
  CASE cmd.op = "initializePet"     -> initializePet(s, s, cmd.arg[1], cmd.arg[2]).next
    [] cmd.op = "performAction"     -> performAction(s, s, cmd.arg).next
    [] cmd.op = "performVetService" -> performVetService(s, s, cmd.arg).next
    [] cmd.op = "teachTrick"        -> teachTrick(s, s, cmd.arg).next
    [] cmd.op = "earnMoney"         -> earnMoney(s, s, cmd.arg[1], cmd.arg[2]).next
    [] cmd.op = "decay"             -> IF s.isFirstTime THEN s ELSE decayTick(s, s).next
    [] cmd.op = "playTime"          -> IF s.isFirstTime THEN s ELSE playTimeTick(s, s).next
    [] cmd.op = "evolution"         -> IF s.isFirstTime THEN s ELSE evolutionCheck(s, s).next
    [] cmd.op = "reactionTimeout"   -> ClearReactionUpdater(s)

\* the state a script leaves; each state is computed in full before the next
\* call is made on it
RECURSIVE Run(_, _)
Run(s, script) ==
  IF script = << >> THEN s
  ELSE LET t == Apply(s, Head(script))
       IN  IF t.isFirstTime \in BOOLEAN THEN Run(t, Tail(script)) ELSE t

RECURSIVE Repeat(_, _)
Repeat(script, n) == IF n = 0 THEN << >> ELSE script \o Repeat(script, n - 1)

Hatch == <<Cmd("initializePet", <<Rex, "veiled">>)>>

Play == <<Cmd("performAction", "play")>>

YardWork == <<Cmd("earnMoney", <<20, "yard_work">>)>>

Calm == <<Cmd("reactionTimeout", "")>>

\* 49 expenses in the log, the oldest a feed and a treat
LedgerScript ==
  Hatch \o <<Cmd("performAction", "feed"), Cmd("performAction", "treat")>>
        \o Repeat(YardWork \o Repeat(Play, 6), 7) \o YardWork \o Repeat(Play, 5) \o Calm

\* hunger one tick from the floor, health falling by 3 a tick
NeglectScript == Hatch \o Repeat(<<Cmd("decay", "")>>, 37)

\* nine chores done
ChoresScript == Hatch \o Repeat(<<Cmd("earnMoney", <<8, "dishes">>)>>, 9)

\* four vet visits paid from yard work
VetScript ==
  Hatch \o Repeat(YardWork \o <<Cmd("performVetService", "treatment")>>, 4)
        \o YardWork \o Calm

\* twenty vet visits, the oldest a checkup
VetCapScript ==
  Hatch \o <<Cmd("performVetService", "checkup")>>
        \o Repeat(YardWork \o <<Cmd("performVetService", "treatment")>>, 19)
        \o YardWork \o Calm

\* n minutes of play, an evolution check after each
GrowthScript(n) == Hatch \o Repeat(<<Cmd("playTime", ""), Cmd("evolution", "")>>, n)

\* two tricks learned, rested
TricksScript ==
  Hatch \o <<Cmd("teachTrick", "Wave"), Cmd("teachTrick", "Spin"),
             Cmd("performAction", "rest")>> \o Calm

SavedGames == { Run(createInitialGameState, LedgerScript),
                Run(createInitialGameState, NeglectScript),
                Run(createInitialGameState, ChoresScript),
                Run(createInitialGameState, VetScript),
                Run(createInitialGameState, VetCapScript),
                Run(createInitialGameState, GrowthScript(14)),
                Run(createInitialGameState, GrowthScript(34)),
                Run(createInitialGameState, TricksScript) }

-----------------------------------------------------------------------------
(* The program: a launch, then any call or timer callback, each followed by
   React's re-render *)

\* one step: the state the queued updaters leave, the call and what it returned
Call(op, arg, r) ==
  /\ budget > 0
  /\ budget' = budget - 1
  /\ lastOp' = [op |-> op, arg |-> arg, ret |-> r.ret]
  /\ gameState' = r.next
  /\ reactionTimeout' = (r.timer \/ reactionTimeout)

\* React re-renders after the step; the callbacks now close over the new state
Render == rendered' = gameState'

\* the decay interval running whether or not a pet exists
DecayTick_always ==
  Call("decay", "", decayTick(rendered, gameState))

\* the interval timers are set up by the effects once isFirstTime is false
DecayTick ==
  /\ ~rendered.isFirstTime
  /\ Call("decay", "", decayTick(rendered, gameState))

PlayTimeTick ==
  /\ ~rendered.isFirstTime
  /\ Call("playTime", "", playTimeTick(rendered, gameState))

EvolutionCheck ==
  /\ ~rendered.isFirstTime
  /\ Call("evolution", "", evolutionCheck(rendered, gameState))

\* the timeout of setReaction fires
ReactionTimeout ==
  /\ reactionTimeout
  /\ budget > 0
  /\ budget' = budget - 1
  /\ lastOp' = [op |-> "reactionTimeout", arg |-> "", ret |-> TRUE]
  /\ gameState' = ClearReactionUpdater(gameState)
  /\ reactionTimeout' = FALSE

Init ==
  /\ \/ gameState = createInitialGameState /\ budget = MaxSteps
     \/ gameState \in SavedGames /\ budget = MaxResumed
  /\ rendered = gameState
  /\ reactionTimeout = FALSE
  /\ lastOp = [op |-> "load", arg |-> "", ret |-> TRUE]

Next ==
  \/ DecayTick /\ Render
  \/ PlayTimeTick /\ Render
  \/ EvolutionCheck /\ Render
  \/ ReactionTimeout /\ Render
  \/ \E name \in PetNames, type \in ChameleonType :
       Call("initializePet", name, initializePet(rendered, gameState, name, type)) /\ Render
  \/ \E ch \in StatChangeInputs :
       Call("updateStats", ch, updateStats(rendered, gameState, ch)) /\ Render
  \/ \E key \in SpendKeys :
       Call("spendMoney", key, spendMoney(rendered, gameState, key)) /\ Render
  \/ \E c \in ChoreInputs :
       Call("earnMoney", c.id, earnMoney(rendered, gameState, c.reward, c.id)) /\ Render
  \/ \E action \in ActionIds :
       Call("performAction", action, performAction(rendered, gameState, action)) /\ Render
  \/ \E serviceType \in VetTypes :
       Call("performVetService", serviceType,
            performVetService(rendered, gameState, serviceType)) /\ Render
  \/ \E trickName \in TrickNames :
       Call("teachTrick", trickName, teachTrick(rendered, gameState, trickName)) /\ Render
  \/ Call("resetGame", "", resetGame(rendered, gameState)) /\ Render

Spec == Init /\ [][Next]_vars

-----------------------------------------------------------------------------
(* The mood classifier on its own: from a hatched pet, updateStats calls whose
   changes move the stats to any point of a grid around the thresholds *)

Half(n) == P(n) - P(1) \div 2

StatGrid ==
  [ hunger      : {Half(20), P(20), P(60), Half(61)},
    happiness   : {Half(25), P(25), P(70), Half(71), P(75), Half(76)},
    health      : {Half(25), P(25), P(70), Half(71)},
    energy      : {Half(15), P(15), P(80), Half(81)},
    cleanliness : {Half(20), P(20)} ]

MoodInit ==
  /\ gameState = Run(createInitialGameState, Hatch)
  /\ budget = MaxMoodCalls
  /\ rendered = gameState
  /\ reactionTimeout = FALSE
  /\ lastOp = [op |-> "load", arg |-> "", ret |-> TRUE]

MoodNext ==
  \E target \in StatGrid :
    LET ch == [k \in StatKeys |-> target[k] - gameState.pet.stats[k]]
    IN  Call("updateStats", ch, updateStats(rendered, gameState, ch)) /\ Render

SpecMood == MoodInit /\ [][MoodNext]_vars

-----------------------------------------------------------------------------
(* Naming the pet: from a first launch, initializePet with any of the names
   and resetGame, which brings the first-time state back *)

NamesInit ==
  /\ gameState = createInitialGameState
  /\ budget = MaxNameCalls
  /\ rendered = gameState
  /\ reactionTimeout = FALSE
  /\ lastOp = [op |-> "load", arg |-> "", ret |-> TRUE]

NamesNext ==
  \/ \E name \in NameInputs, type \in ChameleonType :
       Call("initializePet", name, initializePet(rendered, gameState, name, type)) /\ Render
  \/ Call("resetGame", "", resetGame(rendered, gameState)) /\ Render

SpecNames == NamesInit /\ [][NamesNext]_vars

-----------------------------------------------------------------------------
(* Callers that hold an old snapshot.  A callback keeps the `gameState` of the
   render it was created in: TricksPanel calls onTeachTrick 500 ms after the
   click with the callback of the click's render, and two calls made in one
   handler read the same snapshot.  Here `rendered` is the snapshot the
   callers hold; it is refreshed by a step of its own.  The interval timers
   are set up and cleared by the effects of the committed state. *)

\* the callers get the callbacks of a new render
Refresh ==
  /\ rendered # gameState
  /\ rendered' = gameState
  /\ lastOp' = [op |-> "render", arg |-> "", ret |-> TRUE]
  /\ UNCHANGED <<gameState, reactionTimeout, budget>>

\* the callers keep the callbacks they have
Held == rendered' = rendered

\* an interval callback; the effect's cleanup has cleared it once
\* isFirstTime is true again
IntervalTick(op, r) ==
  /\ ~gameState.isFirstTime
  /\ Call(op, "", r)

StaleInit ==
  /\ gameState \in {createInitialGameState} \cup SavedGames
  /\ budget = MaxStaleSteps
  /\ rendered = gameState
  /\ reactionTimeout = FALSE
  /\ lastOp = [op |-> "load", arg |-> "", ret |-> TRUE]

StaleNext ==
  \/ Refresh
  \/ IntervalTick("decay", decayTick(rendered, gameState)) /\ Held
  \/ IntervalTick("playTime", playTimeTick(rendered, gameState)) /\ Held
  \/ IntervalTick("evolution", evolutionCheck(rendered, gameState)) /\ Held
  \/ ReactionTimeout /\ Held
  \/ \E type \in ChameleonType :
       Call("initializePet", Rex, initializePet(rendered, gameState, Rex, type)) /\ Held
  \/ \E c \in ChoreInputs :
       Call("earnMoney", c.id, earnMoney(rendered, gameState, c.reward, c.id)) /\ Held
  \/ \E action \in ActionIds :
       Call("performAction", action, performAction(rendered, gameState, action)) /\ Held
  \/ \E serviceType \in VetTypes :
       Call("performVetService", serviceType,
            performVetService(rendered, gameState, serviceType)) /\ Held
  \/ \E trickName \in TrickNames :
       Call("teachTrick", trickName, teachTrick(rendered, gameState, trickName)) /\ Held
  \/ Call("resetGame", "", resetGame(rendered, gameState)) /\ Held

SpecStale == StaleInit /\ [][StaleNext]_vars

-----------------------------------------------------------------------------
(* A pet left alone: the player calls nothing more; the decay interval keeps
   firing every 8 s, the evolution check every 30 s, the play-time interval
   for a bounded number of minutes, and a pending reaction timeout once *)

\* pets to leave alone: newly hatched of each type, one just played with,
\* one already neglected, one about to grow
NeglectedPets ==
  { Run(createInitialGameState, <<Cmd("initializePet", <<Rex, type>>)>>) :
      type \in ChameleonType }
  \cup { Run(createInitialGameState, Hatch \o Play),
         Run(createInitialGameState, NeglectScript),
         Run(createInitialGameState, GrowthScript(14)) }

NeglectInit ==
  /\ gameState \in NeglectedPets
  /\ budget = MaxNeglectMinutes
  /\ rendered = gameState
  /\ reactionTimeout = (gameState.pet.currentReaction # "none")
  /\ lastOp = [op |-> "load", arg |-> "", ret |-> TRUE]

\* an interval callback of an interval that never stops
Ongoing(op, r) ==
  /\ ~rendered.isFirstTime
  /\ gameState' = r.next
  /\ lastOp' = [op |-> op, arg |-> "", ret |-> r.ret]
  /\ UNCHANGED <<reactionTimeout, budget>>

OngoingDecay == Ongoing("decay", decayTick(rendered, gameState)) /\ Render

OngoingEvolution == Ongoing("evolution", evolutionCheck(rendered, gameState)) /\ Render

NeglectNext ==
  \/ OngoingDecay
  \/ OngoingEvolution
  \/ PlayTimeTick /\ Render
  \/ ReactionTimeout /\ Render

\* setInterval keeps calling the decay callback
SpecNeglect == NeglectInit /\ [][NeglectNext]_vars /\ WF_vars(OngoingDecay)

-----------------------------------------------------------------------------
(* What the claims say, in the claims' own numbers *)

petStats == gameState.pet.stats

ledger == gameState.finances

BadgeIds(badges) == {badges[i].id : i \in DOMAIN badges}

PaidActions == {"feed", "treat", "play", "clean"}

ClaimedActionCost == [feed |-> 5, treat |-> 8, play |-> 3, clean |-> 8]

ClaimedVetCost == [checkup |-> 25, vaccination |-> 35, treatment |-> 20, emergency |-> 50]

\* the last step was this call, and it returned ret
Called(op, ret) == lastOp.op = op /\ lastOp.ret = ret

\* C1: each of the five stats is >= 0 and <= 100 in every reachable state
C1_StatsInRange ==
  \A k \in StatKeys : petStats[k] >= 0 /\ petStats[k] <= P(100)

\* a decay tick has floored hunger at 0 with the other stats still above 0
C1_Witness ==
  /\ lastOp.op = "decay"
  /\ petStats.hunger = 0
  /\ petStats.health > 0 /\ petStats.cleanliness > 0

C3_MustFail ==
  \/ /\ lastOp'.op = "performAction"
     /\ \/ lastOp'.arg \notin PaidActions \cup {"rest"}
        \/ /\ lastOp'.arg \in PaidActions
           /\ ledger.balance < ClaimedActionCost[lastOp'.arg]
  \/ /\ lastOp'.op = "performVetService"
     /\ ledger.balance < ClaimedVetCost[lastOp'.arg]

\* the step being taken is a paid call on a balance equal to its cost
C3_ExactCost ==
  \/ /\ lastOp'.op = "performAction"
     /\ lastOp'.arg \in PaidActions
     /\ ledger.balance = ClaimedActionCost[lastOp'.arg]
  \/ /\ lastOp'.op = "performVetService"
     /\ ledger.balance = ClaimedVetCost[lastOp'.arg]

C4_MoodNeverStale ==
  ~gameState.isFirstTime => gameState.pet.mood = calculateMood(petStats)

\* the rules of the claim, in the claim's order
C5_Rules(s) ==
  << <<s.health < P(25), "sick">>,
     <<s.hunger < P(20), "hungry">>,
     <<s.cleanliness < P(20), "dirty">>,
     <<s.energy < P(15), "tired">>,
     <<s.happiness < P(25), "sad">>,
     <<s.energy > P(80) /\ s.happiness > P(75), "energetic">>,
     <<s.happiness > P(70) /\ s.hunger > P(60) /\ s.health > P(70), "happy">>,
     <<TRUE, "neutral">> >>

C5_FirstMatch(s) ==
  LET r == C5_Rules(s)
      first == CHOOSE i \in DOMAIN r : r[i][1] /\ \A j \in 1..(i - 1) : ~r[j][1]
  IN  r[first][2]

\* C5: calculateMood returns the label of the first matching rule, in the
\* order sick, hungry, dirty, tired, sad, energetic, happy, neutral: the mood
\* an updateStats call stores is that label for the stats it leaves
C5_MoodIsFirstMatchingRule ==
  lastOp.op = "updateStats" => gameState.pet.mood = C5_FirstMatch(petStats)

\* health and hunger both critical: sick wins over hungry
C5_Witness ==
  /\ lastOp.op = "updateStats"
  /\ petStats.health < P(25)
  /\ petStats.hunger < P(20)
  /\ gameState.pet.mood = "sick"

\* C6: the badges list holds each badge id at most once in every reachable state
C6_NoBadgeTwice ==
  \A i, j \in DOMAIN gameState.badges :
    gameState.badges[i].id = gameState.badges[j].id => i = j

\* play twice from the new pet, no tick between: the second play finds
\* happiness at 100 with happy_camper already held
C6_Witness ==
  /\ Called("performAction", TRUE)
  /\ lastOp.arg = "play"
  /\ petStats.happiness = P(100)
  /\ petStats.energy = P(55)
  /\ Len(ledger.expenses) = 2
  /\ "happy_camper" \in BadgeIds(gameState.badges)

\* no name occurs twice in pet.tricks
C7_NoDuplicateTrick ==
  \A i, j \in DOMAIN gameState.pet.tricks :
    gameState.pet.tricks[i] = gameState.pet.tricks[j] => i = j

ClaimedDeltas ==
  [feed  |-> [hunger |-> 25, energy |-> 5],
   treat |-> [hunger |-> 15, happiness |-> 20],
   play  |-> [happiness |-> 25, energy |-> -15],
   clean |-> [cleanliness |-> 40, happiness |-> 5]]

ClaimedReaction ==
  [feed |-> "eating", treat |-> "love", play |-> "playing", clean |-> "sparkle"]

Clamped(v) == IF v < 0 THEN 0 ELSE IF v > P(100) THEN P(100) ELSE v

\* C8: a paid performAction on a balance that covers its cost returns true;
\* balance falls and totalSpent rises by the cost, an expense of that amount
\* heads the log, each affected stat is the old value plus its delta clamped
\* to [0,100], mood and colour are those of the new stats, and
\* currentReaction is the action's reaction
C8_PaidActionEffect ==
  [][ (/\ lastOp'.op = "performAction"
       /\ lastOp'.arg \in PaidActions
       /\ ledger.balance >= ClaimedActionCost[lastOp'.arg])
      => LET a     == lastOp'.arg
             cost  == ClaimedActionCost[a]
             delta == ClaimedDeltas[a]
             pet2  == gameState'.pet
         IN  /\ lastOp'.ret = TRUE
             /\ gameState'.finances.balance = ledger.balance - cost
             /\ gameState'.finances.totalSpent = ledger.totalSpent + cost
             /\ Len(gameState'.finances.expenses) > 0
             /\ gameState'.finances.expenses[1].amount = cost
             /\ \A k \in DOMAIN delta : pet2.stats[k] = Clamped(petStats[k] + P(delta[k]))
             /\ pet2.mood = calculateMood(pet2.stats)
             /\ pet2.color = getMoodColor(pet2.mood, CHAMELEON_TYPES[pet2.type].baseColor)
             /\ pet2.currentReaction = ClaimedReaction[a] ]_vars

\* feed on the new pet: balance 45, hunger 100 (clamped), energy 90
C8_Witness ==
  /\ Called("performAction", TRUE)
  /\ lastOp.arg = "feed"
  /\ ledger.balance = 45
  /\ ledger.totalSpent = 5
  /\ petStats.hunger = P(100)
  /\ petStats.energy = P(90)

\* C9: performAction('rest') returns true whatever the balance, raises energy
\* by 35 and happiness by 5 (clamped to 100) and leaves balance, totalSpent,
\* totalEarned and the expense log as they were
C9_RestIsFree ==
  [][ (lastOp'.op = "performAction" /\ lastOp'.arg = "rest")
      => /\ lastOp'.ret = TRUE
         /\ gameState'.pet.stats.energy = Clamped(petStats.energy + P(35))
         /\ gameState'.pet.stats.happiness = Clamped(petStats.happiness + P(5))
         /\ gameState'.finances.balance = ledger.balance
         /\ gameState'.finances.totalSpent = ledger.totalSpent
         /\ gameState'.finances.totalEarned = ledger.totalEarned
         /\ gameState'.finances.expenses = ledger.expenses ]_vars

\* a rest taken with nothing in the purse, energy clamped at 100
C9_Witness ==
  /\ Called("performAction", TRUE)
  /\ lastOp.arg = "rest"
  /\ ledger.balance = 0
  /\ petStats.energy = P(100)

\* the step being taken is a paid performAction or a performVetService that succeeds
C10_Charge ==
  /\ lastOp'.ret = TRUE
  /\ \/ lastOp'.op = "performAction" /\ lastOp'.arg \in PaidActions
     \/ lastOp'.op = "performVetService"

C10_ChargedCost ==
  IF lastOp'.op = "performAction" THEN ClaimedActionCost[lastOp'.arg]
  ELSE ClaimedVetCost[lastOp'.arg]

\* C10: the expense log never holds more than 50 entries, and each successful
\* charge puts its expense at index 0 in front of the old entries, of which
\* the oldest is dropped when there were 50 already
C10_ExpenseLogCapped ==
  /\ [](Len(ledger.expenses) <= 50)
  /\ [][ C10_Charge
         => LET old == ledger.expenses
                new == gameState'.finances.expenses
            IN  /\ Len(new) = (IF Len(old) < 50 THEN Len(old) + 1 ELSE 50)
                /\ new[1].amount = C10_ChargedCost
                /\ \A i \in 2..Len(new) : new[i] = old[i - 1] ]_vars

\* a charge on a full log: the feed that was oldest is gone and the treat
\* that followed it is now last
C10_Witness ==
  /\ lastOp.op \in {"performAction", "performVetService"}
  /\ lastOp.ret
  /\ Len(ledger.expenses) = 50
  /\ ledger.expenses[50].description = "Special treat"

\* C11: in every reachable state in which a pet exists, each count or
\* threshold achievement that holds has its badge: 10 completed chores give
\* hard_worker, a balance of 100 money_saver, 5 vet visits vet_regular and
\* 3 tricks trick_master
C11_AchievementHasBadge ==
  ~gameState.isFirstTime =>
    LET held == BadgeIds(gameState.badges)
    IN  /\ Len(gameState.completedChores) >= 10 => "hard_worker" \in held
        /\ ledger.balance >= 100 => "money_saver" \in held
        /\ Len(gameState.pet.vetHistory) >= 5 => "vet_regular" \in held
        /\ Len(gameState.pet.tricks) >= 3 => "trick_master" \in held

\* C12: whenever a paid performAction, performAction('rest') or teachTrick
\* leaves happiness at 100, happy_camper is in the badges list once the
\* operation has completed
C12_HappyCamperGranted ==
  (/\ \/ lastOp.op = "performAction" /\ lastOp.arg \in PaidActions \cup {"rest"}
      \/ lastOp.op = "teachTrick"
   /\ lastOp.ret = TRUE
   /\ petStats.happiness = P(100))
  => "happy_camper" \in BadgeIds(gameState.badges)

\* the reward of the chore an earnMoney step is called with
C13_Amount == (CHOOSE c \in ChoreInputs : c.id = lastOp'.arg).reward

\* badges a claim says are granted: those of ids, in order, not yet in held
C13_Granted(held, ids) ==
  LET RECURSIVE Grant(_, _)
      Grant(acc, rest) ==
        IF rest = << >> THEN acc
        ELSE Grant(IF Head(rest) \in BadgeIds(held) THEN acc
                   ELSE Append(acc, Head(rest)), Tail(rest))
  IN  Grant(<< >>, ids)

\* C13: earnMoney(amount, choreId) always succeeds: balance and totalEarned
\* rise by amount, choreId is appended to completedChores, totalSpent, the
\* expense log and the pet stay as they were, hard_worker is granted when the
\* new completedChores length is >= 10 and money_saver when the new balance
\* is >= 100, each only if not already held; once the call has left 10 or more
\* completed chores the "Super Helper" badge is present exactly once
C13_EarnMoneyEffect ==
  [][ lastOp'.op = "earnMoney"
      => LET new  == gameState'
             due  == (IF Len(gameState.completedChores) + 1 >= 10
                      THEN <<"hard_worker">> ELSE << >>)
                     \o (IF ledger.balance + C13_Amount >= 100
                         THEN <<"money_saver">> ELSE << >>)
             got  == C13_Granted(gameState.badges, due)
         IN  /\ lastOp'.ret = TRUE
             /\ new.finances.balance = ledger.balance + C13_Amount
             /\ new.finances.totalEarned = ledger.totalEarned + C13_Amount
             /\ new.completedChores = Append(gameState.completedChores, lastOp'.arg)
             /\ new.finances.totalSpent = ledger.totalSpent
             /\ new.finances.expenses = ledger.expenses
             /\ new.pet = gameState.pet
             /\ Len(new.badges) = Len(gameState.badges) + Len(got)
             /\ \A i \in DOMAIN gameState.badges : new.badges[i] = gameState.badges[i]
             /\ \A i \in DOMAIN got : new.badges[Len(gameState.badges) + i].id = got[i]
             /\ Len(new.completedChores) >= 10
                  => Cardinality({i \in DOMAIN new.badges :
                                    new.badges[i].name = "Super Helper"}) = 1 ]_vars

\* the tenth chore has just been paid and brought the hard_worker badge
C13_Witness ==
  /\ Called("earnMoney", TRUE)
  /\ Len(gameState.completedChores) = 10
  /\ gameState.badges[Len(gameState.badges)].id = "hard_worker"

ClaimedVetBoost == [checkup |-> 30, vaccination |-> 15, treatment |-> 40, emergency |-> 60]

\* C14: a performVetService call on a balance that covers the cost (checkup
\* 25/+30, vaccination 35/+15, treatment 20/+40, emergency 50/+60) returns
\* true; balance falls and totalSpent rises by the cost, health is
\* min(100, old health + boost), mood and colour are those of the new stats,
\* the visit's record heads vetHistory in front of the old records,
\* lastVetVisit is set, currentReaction is 'healing', a 'health' expense of
\* the cost heads the expense log, and vet_regular is held once vetHistory has
\* 5 entries; vetHistory never holds more than 20 records
C14_VetServiceEffect ==
  /\ [](Len(gameState.pet.vetHistory) <= 20)
  /\ [][ (/\ lastOp'.op = "performVetService"
          /\ ledger.balance >= ClaimedVetCost[lastOp'.arg])
         => LET type  == lastOp'.arg
                cost  == ClaimedVetCost[type]
                old   == gameState.pet.vetHistory
                pet2  == gameState'.pet
                fin2  == gameState'.finances
                grant == Len(pet2.vetHistory) >= 5
                           /\ "vet_regular" \notin BadgeIds(gameState.badges)
            IN  /\ lastOp'.ret = TRUE
                /\ fin2.balance = ledger.balance - cost
                /\ fin2.totalSpent = ledger.totalSpent + cost
                /\ fin2.totalEarned = ledger.totalEarned
                /\ pet2.stats = [petStats EXCEPT
                                   !.health = Min(P(100), petStats.health + P(ClaimedVetBoost[type]))]
                /\ pet2.mood = calculateMood(pet2.stats)
                /\ pet2.color = getMoodColor(pet2.mood, CHAMELEON_TYPES[pet2.type].baseColor)
                /\ Len(pet2.vetHistory) = (IF Len(old) < 20 THEN Len(old) + 1 ELSE 20)
                /\ pet2.vetHistory[1].type = type
                /\ pet2.vetHistory[1].cost = cost
                /\ pet2.vetHistory[1].healthBoost = ClaimedVetBoost[type]
                /\ \A i \in 2..Len(pet2.vetHistory) : pet2.vetHistory[i] = old[i - 1]
                /\ pet2.lastVetVisit = TRUE
                /\ pet2.currentReaction = "healing"
                /\ fin2.expenses[1].category = "health"
                /\ fin2.expenses[1].amount = cost
                /\ BadgeIds(gameState'.badges)
                     = BadgeIds(gameState.badges)
                         \cup (IF grant THEN {"vet_regular"} ELSE {}) ]_vars

\* the twenty-first visit: its record heads a history of twenty from which
\* the first visit, a checkup, is gone
C14_Witness ==
  /\ Called("performVetService", TRUE)
  /\ Len(gameState.pet.vetHistory) = 20
  /\ Len(ledger.expenses) = 21
  /\ gameState.pet.vetHistory[20].type = "treatment"
  /\ "vet_regular" \in BadgeIds(gameState.badges)

\* C15: a teachTrick call with energy >= 30 and a name not yet learned returns
\* true, appends the name to pet.tricks, lowers energy by 20 (floored at 0),
\* raises happiness by 15 (capped at 100), leaves the finances as they were,
\* and grants trick_master when the list reaches 3 tricks and the badge is
\* not already held
C15_TeachTrickEffect ==
  [][ (/\ lastOp'.op = "teachTrick"
       /\ petStats.energy >= P(30)
       /\ ~Includes(gameState.pet.tricks, lastOp'.arg))
      => LET pet2  == gameState'.pet
             grant == Len(pet2.tricks) >= 3
                        /\ "trick_master" \notin BadgeIds(gameState.badges)
         IN  /\ lastOp'.ret = TRUE
             /\ pet2.tricks = Append(gameState.pet.tricks, lastOp'.arg)
             /\ pet2.stats.energy = Max(0, petStats.energy - P(20))
             /\ pet2.stats.happiness = Min(P(100), petStats.happiness + P(15))
             /\ \A k \in StatKeys \ {"energy", "happiness"} : pet2.stats[k] = petStats[k]
             /\ gameState'.finances = ledger
             /\ Len(gameState'.badges) = Len(gameState.badges) + (IF grant THEN 1 ELSE 0)
             /\ \A i \in DOMAIN gameState.badges : gameState'.badges[i] = gameState.badges[i]
             /\ grant => gameState'.badges[Len(gameState'.badges)].id = "trick_master" ]_vars

\* the third trick has just been learned and brought the trick_master badge
C15_Witness ==
  /\ Called("teachTrick", TRUE)
  /\ Len(gameState.pet.tricks) = 3
  /\ gameState.badges[Len(gameState.badges)].id = "trick_master"

\* C16: after a successful initializePet on a fresh game isFirstTime is false,
\* balance is 50, the stats are hunger 75, happiness 80, health 100, energy 85,
\* cleanliness 95, mood is 'happy', evolutionStage is 1, tricks and vetHistory
\* are empty, and badges is exactly the single first_pet badge with an
\* earnedAt timestamp
C16_FreshPet ==
  [][ (/\ lastOp'.op = "initializePet"
       /\ lastOp'.ret = TRUE
       /\ gameState = createInitialGameState)
      => LET new == gameState'
         IN  /\ new.isFirstTime = FALSE
             /\ new.finances.balance = 50
             /\ new.pet.stats = [hunger |-> P(75), happiness |-> P(80), health |-> P(100),
                                 energy |-> P(85), cleanliness |-> P(95)]
             /\ new.pet.mood = "happy"
             /\ new.pet.evolutionStage = 1
             /\ new.pet.tricks = << >>
             /\ new.pet.vetHistory = << >>
             /\ Len(new.badges) = 1
             /\ new.badges[1].id = "first_pet"
             /\ new.badges[1].earnedAt = TRUE ]_vars

\* the first pet of a game in which nothing else has happened, named with
\* spaces around the name
C16_Witness ==
  /\ Called("initializePet", TRUE)
  /\ lastOp.arg = PaddedName
  /\ ~gameState.isFirstTime
  /\ gameState.completedChores = << >>
  /\ ledger.totalEarned = 50
  /\ ledger.expenses = << >>
  /\ gameState.totalPlayTime = 0

C17_Letters ==
  {"a", "b", "c", "d", "e", "f", "g", "h", "i", "j", "k", "l", "m",
   "n", "o", "p", "q", "r", "s", "t", "u", "v", "w", "x", "y", "z",
   "A", "B", "C", "D", "E", "F", "G", "H", "I", "J", "K", "L", "M",
   "N", "O", "P", "Q", "R", "S", "T", "U", "V", "W", "X", "Y", "Z"}

C17_Digits == {"0", "1", "2", "3", "4", "5", "6", "7", "8", "9"}

\* the bad names of the claim: empty or only spaces, too short (under two
\* characters), longer than 20, or holding a character that is no letter,
\* digit or space
C17_BadName(name) ==
  LET t == Trim(name)
  IN  \/ t = << >>
      \/ Len(t) < 2
      \/ Len(t) > 20
      \/ \E i \in DOMAIN t : t[i] \notin C17_Letters \cup C17_Digits \cup {" "}

\* C17: initializePet returns false and leaves the state unchanged for every
\* bad name (empty or whitespace-only, too short, longer than 20 characters,
\* or with a character other than letters, digits and spaces); it returns
\* true only for a name of legal length and characters
C17_BadNameRejected ==
  [][ (lastOp'.op = "initializePet" /\ C17_BadName(lastOp'.arg))
      => /\ lastOp'.ret = FALSE
         /\ gameState' = gameState ]_vars

TimerOps == {"decay", "playTime", "evolution"}

\* C18: while isFirstTime is true (before the first successful initializePet
\* and again after resetGame) no decay tick, play-time tick or evolution
\* check changes the state: a step taken from such a state is none of the
\* three, or leaves stats, mood, totalPlayTime, age and evolutionStage as
\* they are
C18_NoTickWithoutPet ==
  [][ (gameState.isFirstTime /\ lastOp'.op \in TimerOps)
      => /\ gameState'.pet.stats = petStats
         /\ gameState'.pet.mood = gameState.pet.mood
         /\ gameState'.totalPlayTime = gameState.totalPlayTime
         /\ gameState'.pet.age = gameState.pet.age
         /\ gameState'.pet.evolutionStage = gameState.pet.evolutionStage ]_vars

\* a game whose pet was ticking has been reset and the program goes on
C18_Witness ==
  /\ Called("resetGame", TRUE)
  /\ gameState.isFirstTime
  /\ rendered.isFirstTime
  /\ budget > 0

\* what the claim says a tick takes from each stat, in half points
C19_Drop(s) ==
  [ hunger      |-> P(2),
    happiness   |-> P(1),
    energy      |-> P(1),
    cleanliness |-> P(3) \div 2,
    health      |-> IF s.hunger < P(20) \/ s.cleanliness < P(20) THEN P(3) ELSE P(1) \div 2 ]

\* C19: one decay tick lowers hunger by 2, happiness by 1, energy by 1,
\* cleanliness by 1.5 and health by 3 if the pre-tick hunger or cleanliness is
\* below 20 and by 0.5 otherwise, each floored at 0; it sets mood to
\* calculateMood of the new stats and color to getMoodColor of that mood and
\* the type's base colour, and leaves finances, badges, tricks, vetHistory,
\* completedChores, totalPlayTime, age and evolutionStage unchanged; no tick
\* increases any stat
C19_DecayTickEffect ==
  [][ lastOp'.op = "decay"
      => LET pet2 == gameState'.pet
             drop == C19_Drop(petStats)
         IN  /\ \A k \in StatKeys :
                  /\ pet2.stats[k] = (IF petStats[k] - drop[k] < 0 THEN 0
                                      ELSE petStats[k] - drop[k])
                  /\ pet2.stats[k] <= petStats[k]
             /\ pet2.mood = calculateMood(pet2.stats)
             /\ pet2.color = getMoodColor(pet2.mood, CHAMELEON_TYPES[pet2.type].baseColor)
             /\ gameState'.finances = ledger
             /\ gameState'.badges = gameState.badges
             /\ pet2.tricks = gameState.pet.tricks
             /\ pet2.vetHistory = gameState.pet.vetHistory
             /\ gameState'.completedChores = gameState.completedChores
             /\ gameState'.totalPlayTime = gameState.totalPlayTime
             /\ pet2.age = gameState.pet.age
             /\ pet2.evolutionStage = gameState.pet.evolutionStage ]_vars

\* a tick on the neglected pet: hunger floored at 0 from 1, health down by 3
\* to 56, mood 'hungry'
C19_Witness ==
  /\ lastOp.op = "decay"
  /\ petStats.hunger = 0
  /\ petStats.health = P(56)
  /\ gameState.pet.mood = "hungry"

\* C20: every stat value is an integer in every reachable state: no sequence
\* of actions and decay ticks produces a fractional hunger, happiness,
\* health, energy or cleanliness (a stat is held in half points: an integer
\* is an even number of them)
C20_StatsAreIntegers ==
  \A k \in StatKeys : petStats[k] % Scale = 0

\* the stage the claim gives an age
C21_Stage(age) == IF age < 3 THEN 1 ELSE IF age < 7 THEN 2 ELSE 3

C21_StageBadge == [s \in {2, 3} |-> IF s = 2 THEN "evolution_1" ELSE "evolution_2"]

\* C21: after every evolution check pet.age = floor(totalPlayTime / 5) and
\* pet.evolutionStage is the stage of that age (1 below 3, 2 from 3 and below
\* 7, 3 from 7); a check that changes the stage sets currentReaction to
\* 'sparkle' and leaves the badge of the new stage in the list exactly once,
\* and a check that does not change the stage changes nothing but age
C21_EvolutionCheckEffect ==
  [][ lastOp'.op = "evolution"
      => LET new == gameState'
             age == gameState.totalPlayTime \div 5
         IN  /\ new.pet.age = age
             /\ new.pet.evolutionStage = C21_Stage(age)
             /\ IF new.pet.evolutionStage # gameState.pet.evolutionStage
                THEN /\ new.pet.currentReaction = "sparkle"
                     /\ Cardinality({i \in DOMAIN new.badges :
                          new.badges[i].id = C21_StageBadge[new.pet.evolutionStage]}) = 1
                     /\ \A i \in DOMAIN gameState.badges : new.badges[i] = gameState.badges[i]
                     /\ Len(new.badges) <= Len(gameState.badges) + 1
                     /\ new = [gameState EXCEPT !.pet.age = new.pet.age,
                                                !.pet.evolutionStage = new.pet.evolutionStage,
                                                !.pet.currentReaction = "sparkle",
                                                !.badges = new.badges]
                ELSE new = [gameState EXCEPT !.pet.age = age] ]_vars

\* the check after the 35th minute of play: age 7, stage 3, evolution_2 the
\* newest badge
C21_Witness ==
  /\ lastOp.op = "evolution"
  /\ gameState.totalPlayTime = 35
  /\ gameState.pet.age = 7
  /\ gameState.pet.evolutionStage = 3
  /\ gameState.badges[Len(gameState.badges)].id = "evolution_2"

\* C22: the reaction tag auto-expires: whenever pet.currentReaction becomes a
\* value other than 'none' (from performAction, performVetService, teachTrick
\* or an evolution stage change) it returns to 'none' one delay after the
\* most recent reaction request; only the clear timeout sets it back, so the
\* step that shows a new reaction leaves the clear timeout pending
C22_ReactionExpires ==
  [][ (/\ gameState'.pet.currentReaction # "none"
       /\ gameState'.pet.currentReaction # gameState.pet.currentReaction)
      => reactionTimeout' ]_vars

\* callbacks that a reset can find scheduled: the three intervals, the clear
\* timeout of a reaction and the deferred teachTrick of TricksPanel
C23_Scheduled == TimerOps \cup {"reactionTimeout", "teachTrick"}

\* C23: resetGame replaces the state wholesale with the default state
\* (isFirstTime true, empty pet name, balance 50, totalSpent 0, no badges, no
\* completed chores, no tricks, totalPlayTime 0), and no callback scheduled
\* before the reset, run while the callers still hold the callbacks of the
\* game that was reset, changes that fresh state
C23_ResetIsFinal ==
  [][ /\ lastOp'.op = "resetGame"
        => /\ gameState' = createInitialGameState
           /\ gameState'.isFirstTime
           /\ gameState'.pet.name = << >>
           /\ gameState'.finances.balance = 50
           /\ gameState'.finances.totalSpent = 0
           /\ gameState'.badges = << >>
           /\ gameState'.completedChores = << >>
           /\ gameState'.pet.tricks = << >>
           /\ gameState'.totalPlayTime = 0
      /\ (/\ gameState = createInitialGameState
          /\ ~rendered.isFirstTime
          /\ lastOp'.op \in C23_Scheduled)
         => gameState' = createInitialGameState ]_vars

\* the state one timer callback leaves, run on the state s
C24_After(op, s) ==
  CASE op = "decay"     -> decayTick(s, s).next
    [] op = "playTime"  -> playTimeTick(s, s).next
    [] op = "evolution" -> evolutionCheck(s, s).next

\* C24: the order in which timers due in the same turn fire does not matter:
\* in every state with a pet, for every pair among decay tick, play-time tick
\* and evolution check, the two applied in either order leave the same game
\* state
C24_TimersCommute ==
  ~gameState.isFirstTime =>
    \A a, b \in TimerOps :
      C24_After(b, C24_After(a, gameState)) = C24_After(a, C24_After(b, gameState))

\* C25: the affordability check and the charge act on the same balance: in
\* every interleaving, calls made back-to-back on one snapshot included, a
\* performAction or performVetService charge is applied only if the balance
\* at the moment it is applied is at least the cost, so the charges never
\* overdraw the balance
C25_ChargeOnlyIfAffordable ==
  [][ C10_Charge
      => /\ ledger.balance >= C10_ChargedCost
         /\ gameState'.finances.balance >= 0 ]_vars

\* C26: teachTrick's preconditions hold for the state it modifies: when the
\* call is deferred or made twice on one rendered snapshot, and a decay tick,
\* a 'play' action or another teachTrick has changed the pet in between, a
\* trick is appended and energy reduced only if the current energy is >= 30
\* and the name is not yet in the current tricks list
C26_TeachTrickOnCurrentState ==
  [][ (/\ lastOp'.op = "teachTrick"
       /\ \/ gameState'.pet.tricks # gameState.pet.tricks
          \/ gameState'.pet.stats.energy < petStats.energy)
      => /\ petStats.energy >= P(30)
         /\ ~Includes(gameState.pet.tricks, lastOp'.arg) ]_vars

\* C27: the ledger always balances: finances.balance = finances.totalEarned
\* - finances.totalSpent in every reachable state (the starting 50 counts as
\* earned), and between two resets totalEarned and totalSpent never decrease
C27_LedgerBalances ==
  /\ [](ledger.balance = ledger.totalEarned - ledger.totalSpent)
  /\ [][ lastOp'.op # "resetGame"
         => /\ gameState'.finances.totalEarned >= ledger.totalEarned
            /\ gameState'.finances.totalSpent >= ledger.totalSpent ]_vars

\* money has been earned and spent: a vet visit paid after yard work
C27_Witness ==
  /\ Called("performVetService", TRUE)
  /\ ledger.totalEarned = 70
  /\ ledger.totalSpent = 20
  /\ ledger.balance = 50

\* C28: earned badges are never lost except by resetGame: for every operation
\* other than resetGame, a second initializePet on a game that already has a
\* pet included, every badge id in the list before the operation is still in
\* the list after it
C28_BadgesKept ==
  [][ lastOp'.op # "resetGame"
      => BadgeIds(gameState.badges) \subseteq BadgeIds(gameState'.badges) ]_vars

\* C29: growth is monotone and fully rewarded: between two resets
\* pet.evolutionStage never decreases, and in every state evolutionStage >= 2
\* implies evolution_1 is in badges and evolutionStage = 3 implies
\* evolution_2 is in badges, whatever the interleaving of play-time ticks,
\* evolution checks and initializePet
C29_GrowthMonotoneAndRewarded ==
  [][ lastOp'.op # "resetGame"
      => LET stage2 == gameState'.pet.evolutionStage
             held2  == BadgeIds(gameState'.badges)
         IN  /\ stage2 >= gameState.pet.evolutionStage
             /\ stage2 >= 2 => "evolution_1" \in held2
             /\ stage2 = 3 => "evolution_2" \in held2 ]_vars

\* C30: a neglected pet ends up sick: once a pet exists, if decay ticks keep
\* firing and the player invokes no further action, all five stats
\* eventually reach 0 and stay there, and from the first tick that leaves
\* health < 25 the mood is 'sick' in every later state
C30_NeglectedPetEndsSick ==
  /\ <>[](\A k \in StatKeys : petStats[k] = 0)
  /\ [](petStats.health < P(25) => gameState.pet.mood = "sick")

\* the tick that takes the last stat to 0, the pet sick
C30_Witness ==
  /\ lastOp.op = "decay"
  /\ \A k \in StatKeys : petStats[k] = 0
  /\ gameState.pet.mood = "sick"

====
